---- MODULE Spec2Model ----
(***************************************************************************)
(* The MicroPython component of LionsOS: the two cothreads (t_event, t_mp), *)
(* the event state (active_events, mp_blocking_events), await, notified,    *)
(* init and t_mp_entrypoint of components/micropython/micropython.c, and    *)
(* the sDDF serial queues that init seeds.                                  *)
(*                                                                          *)
(* An event mask (an int used as a bit set) is a set of source tags:        *)
(* a | b is a \cup b, a & b is a \cap b, a & ~b is a \ b, 0 is {}.          *)
(***************************************************************************)
EXTENDS Integers, Sequences, FiniteSets, TLC

\* ------------------------------------------------------------------ bounds

\* Entries of a serial ring (the size the peer gives each ring).
NUM_ENTRIES == 4
\* Bytes of one data slot.
BUFFER_SIZE == 2
\* Queue operations explored after the seeding (QueueSpec).
MaxOps == 6

\* ------------------------------------------------------- event state, types

mp_event_source_none == {}

\* The channel ids a notification can carry; UNKNOWN_CH stands for every id
\* that no case of the dispatcher names.
Channels ==
    {"SERIAL_RX_CH", "TIMER_CH", "FRAMEBUFFER_VMM_CH", "NFS_CH", "I2C_CH",
     "ETH_RX_CH", "ETH_TX_CH", "UNKNOWN_CH"}

\* The build: EXEC_MODULE, ENABLE_I2C, ENABLE_FRAMEBUFFER defined or not.
Builds == [EXEC_MODULE : BOOLEAN, ENABLE_I2C : BOOLEAN, ENABLE_FRAMEBUFFER : BOOLEAN]

VARIABLES
    build,               \* the preprocessor configuration (fixed)
    active_events,       \* Pending-Events mask
    mp_blocking_events,  \* Awaited-Event mask
    cur,                 \* the active cothread: "t_event" or "t_mp"
    ev_pc,               \* position of the Event Context
    mp_pc,               \* position of the Interpreter Context
    ch,                  \* notified's argument ("none" outside notified)
    event_source,        \* await's argument ({} outside await)
    i,                   \* init's loop variable
    calls,               \* routines the current notified call has invoked
    logged,              \* the current notified call printed "unexpected notification"
    serial_rx_queue,     \* the receive queue: free and active ring
    serial_tx_queue,     \* the transmit queue: free and active ring
    held,                \* per queue: slots of the data region in neither ring
    seed_full,           \* serial_enqueue_free calls of init that returned Queue-Full
    ret,                 \* the last queue operation and what it returned
    nops,                \* queue operations done after the seeding
    enq_log,             \* per queue and ring: descriptors enqueued, in order
    deq_log,             \* per queue and ring: descriptors dequeued, in order
    await_rec,           \* the last await call: its source, its path, its returns
    coalesced            \* sources whose pending bit stands for two or more notifications

\* The event state and the interpreter's side, which init's loops and the
\* queue operations leave alone.
event_vars == <<build, active_events, mp_blocking_events, cur, mp_pc, ch,
                event_source, calls, logged, await_rec, coalesced>>
\* The queues and their bookkeeping, which await, notified and t_mp_entrypoint
\* leave alone.
queue_vars == <<i, serial_rx_queue, serial_tx_queue, held, seed_full, ret, nops,
                enq_log, deq_log>>
vars == <<build, active_events, mp_blocking_events, cur, ev_pc, mp_pc, ch,
          event_source, i, calls, logged, serial_rx_queue, serial_tx_queue,
          held, seed_full, ret, nops, enq_log, deq_log, await_rec, coalesced>>

\* --------------------------------------------------------- serial ring queue

NoDesc == [addr |-> -1, len |-> 0]

\* A ring as its peer creates it: empty, NUM_ENTRIES entries.
EmptyRing ==
    [head |-> 0, tail |-> 0, size |-> NUM_ENTRIES,
     entries |-> [k \in 0 .. NUM_ENTRIES - 1 |-> NoDesc]]

\* serial_queue_full without the unused entry: full only when tail has gone a
\* whole ring past head, which the wrapped indices cannot show.
serial_queue_full_NoHeadroom(ring) == ring.tail - ring.head = ring.size

\* serial_dequeue that returns the entry at head without advancing head.
serial_dequeue_NoAdvance(ring) ==
    IF ring.tail = ring.head
    THEN [ring |-> ring, status |-> "Queue-Empty", desc |-> NoDesc]
    ELSE [ring |-> ring, status |-> "ok", desc |-> ring.entries[ring.head]]

\* serial_dequeue that returns the newest entry instead of the oldest.
serial_dequeue_Newest(ring) ==
    IF ring.tail = ring.head
    THEN [ring |-> ring, status |-> "Queue-Empty", desc |-> NoDesc]
    ELSE [ring |-> [ring EXCEPT !.tail = (ring.tail + ring.size - 1) % ring.size],
          status |-> "ok",
          desc |-> ring.entries[(ring.tail + ring.size - 1) % ring.size]]

serial_queue_empty(ring) == (ring.tail - ring.head) % ring.size = 0

\* One entry stays unused, so that head = tail only when the ring is empty.
serial_queue_full(ring) == (ring.tail - ring.head + 1) % ring.size = 0

serial_enqueue(ring, buffer, len) ==
    IF serial_queue_full(ring)
    THEN [ring |-> ring, status |-> "Queue-Full"]
    ELSE [ring |-> [ring EXCEPT !.entries[ring.tail] = [addr |-> buffer, len |-> len],
                                !.tail = (ring.tail + 1) % ring.size],
          status |-> "ok"]

serial_dequeue(ring) ==
    IF serial_queue_empty(ring)
    THEN [ring |-> ring, status |-> "Queue-Empty", desc |-> NoDesc]
    ELSE [ring |-> [ring EXCEPT !.head = (ring.head + 1) % ring.size],
          status |-> "ok", desc |-> ring.entries[ring.head]]

serial_enqueue_free(queue, buffer, len) ==
    LET e == serial_enqueue(queue.free, buffer, len)
    IN  [queue |-> [queue EXCEPT !.free = e.ring], status |-> e.status]

serial_enqueue_active(queue, buffer, len) ==
    LET e == serial_enqueue(queue.active, buffer, len)
    IN  [queue |-> [queue EXCEPT !.active = e.ring], status |-> e.status]

serial_dequeue_free(queue) ==
    LET d == serial_dequeue(queue.free)
    IN  [queue |-> [queue EXCEPT !.free = d.ring], status |-> d.status, desc |-> d.desc]

serial_dequeue_active(queue) ==
    LET d == serial_dequeue(queue.active)
    IN  [queue |-> [queue EXCEPT !.active = d.ring], status |-> d.status, desc |-> d.desc]

\* serial_queue_init with buffer_init = false: the handle takes the two rings
\* as the peer left them.
serial_queue_init == [free |-> EmptyRing, active |-> EmptyRing]

\* The descriptors a ring holds, oldest first.
RECURSIVE RingFrom(_, _)
RingFrom(ring, k) ==
    IF k = ring.tail THEN <<>>
    ELSE <<ring.entries[k]>> \o RingFrom(ring, (k + 1) % ring.size)

RingSeq(ring) == RingFrom(ring, ring.head)

RingAddrs(ring) == {RingSeq(ring)[k].addr : k \in 1 .. Len(RingSeq(ring))}

\* The slot init gives to the i-th serial_enqueue_free of a queue.
SlotAddr(data, n) == data + ((n + NUM_ENTRIES) * BUFFER_SIZE)

\* serial_rx_data, serial_tx_data: where the loader maps the two data regions.
serial_rx_data == 0
serial_tx_data == 64

\* The slots of the half of a data region that init draws from.
DataSlots(data) == {SlotAddr(data, n) : n \in 0 .. NUM_ENTRIES - 1}

\* ------------------------------------------------------------------- Init

Init ==
    /\ build \in Builds
    /\ active_events = mp_event_source_none
    /\ mp_blocking_events = mp_event_source_none
    /\ cur = "t_event"
    /\ ev_pc = "init_rx"
    /\ mp_pc = "unstarted"
    /\ ch = "none"
    /\ event_source = {}
    /\ i = 0
    /\ calls = <<>>
    /\ logged = FALSE
    /\ serial_rx_queue = serial_queue_init
    /\ serial_tx_queue = serial_queue_init
    /\ held = [q \in {"rx", "tx"} |->
                 IF q = "rx" THEN DataSlots(serial_rx_data) ELSE DataSlots(serial_tx_data)]
    /\ seed_full = 0
    /\ ret = [op |-> "none", q |-> "none", status |-> "none", desc |-> NoDesc]
    /\ nops = 0
    /\ enq_log = [q \in {"rx", "tx"} |-> [r \in {"free", "active"} |-> <<>>]]
    /\ deq_log = [q \in {"rx", "tx"} |-> [r \in {"free", "active"} |-> <<>>]]
    /\ await_rec = [src |-> {}, path |-> "none", returns |-> 0,
                    merged |-> FALSE, after_merged |-> FALSE]
    /\ coalesced = {}

\* ------------------------------------------------------------------- init

\* InitSerialRx with the loop bound NUM_ENTRIES in place of NUM_ENTRIES - 1.
InitSerialRx_OneTooMany ==
    /\ cur = "t_event" /\ ev_pc = "init_rx"
    /\ IF i < NUM_ENTRIES
       THEN LET buf == SlotAddr(serial_rx_data, i)
                e == serial_enqueue_free(serial_rx_queue, buf, BUFFER_SIZE)
            IN  /\ serial_rx_queue' = e.queue
                /\ held' = IF e.status = "ok" THEN [held EXCEPT !["rx"] = @ \ {buf}] ELSE held
                /\ enq_log' = IF e.status = "ok"
                              THEN [enq_log EXCEPT !["rx"]["free"] =
                                        Append(@, [addr |-> buf, len |-> BUFFER_SIZE])]
                              ELSE enq_log
                /\ seed_full' = IF e.status = "ok" THEN seed_full ELSE seed_full + 1
                /\ i' = i + 1
                /\ ev_pc' = ev_pc
       ELSE /\ ev_pc' = "init_tx"
            /\ i' = 0
            /\ UNCHANGED <<serial_rx_queue, held, enq_log, seed_full>>
    /\ UNCHANGED <<serial_tx_queue, ret, nops, deq_log, event_vars>>

\* init, lines 133-136: serial_queue_init, then one pass of the loop that
\* seeds the receive free ring; the return value of serial_enqueue_free is
\* dropped.
InitSerialRx ==
    /\ cur = "t_event" /\ ev_pc = "init_rx"
    /\ IF i < NUM_ENTRIES - 1
       THEN LET buf == SlotAddr(serial_rx_data, i)
                e == serial_enqueue_free(serial_rx_queue, buf, BUFFER_SIZE)
            IN  /\ serial_rx_queue' = e.queue
                /\ held' = IF e.status = "ok" THEN [held EXCEPT !["rx"] = @ \ {buf}] ELSE held
                /\ enq_log' = IF e.status = "ok"
                              THEN [enq_log EXCEPT !["rx"]["free"] =
                                        Append(@, [addr |-> buf, len |-> BUFFER_SIZE])]
                              ELSE enq_log
                /\ seed_full' = IF e.status = "ok" THEN seed_full ELSE seed_full + 1
                /\ i' = i + 1
                /\ ev_pc' = ev_pc
       ELSE /\ ev_pc' = "init_tx"
            /\ i' = 0
            /\ UNCHANGED <<serial_rx_queue, held, enq_log, seed_full>>
    /\ UNCHANGED <<serial_tx_queue, ret, nops, deq_log, event_vars>>

\* init, lines 137-140: the same for the transmit free ring.
InitSerialTx ==
    /\ cur = "t_event" /\ ev_pc = "init_tx"
    /\ IF i < NUM_ENTRIES - 1
       THEN LET buf == SlotAddr(serial_tx_data, i)
                e == serial_enqueue_free(serial_tx_queue, buf, BUFFER_SIZE)
            IN  /\ serial_tx_queue' = e.queue
                /\ held' = IF e.status = "ok" THEN [held EXCEPT !["tx"] = @ \ {buf}] ELSE held
                /\ enq_log' = IF e.status = "ok"
                              THEN [enq_log EXCEPT !["tx"]["free"] =
                                        Append(@, [addr |-> buf, len |-> BUFFER_SIZE])]
                              ELSE enq_log
                /\ seed_full' = IF e.status = "ok" THEN seed_full ELSE seed_full + 1
                /\ i' = i + 1
                /\ ev_pc' = ev_pc
       ELSE /\ ev_pc' = "init_ctx"
            /\ i' = 0
            /\ UNCHANGED <<serial_tx_queue, held, enq_log, seed_full>>
    /\ UNCHANGED <<serial_rx_queue, ret, nops, deq_log, event_vars>>

\* init, lines 146-148: t_event = co_active(), t_mp = co_derive(...),
\* co_switch(t_mp): t_mp_entrypoint starts, init is suspended in co_switch.
InitContexts ==
    /\ cur = "t_event" /\ ev_pc = "init_ctx"
    /\ cur' = "t_mp"
    /\ ev_pc' = "init_switched"
    /\ mp_pc' = "start_repl"
    /\ UNCHANGED <<build, active_events, mp_blocking_events, ch, event_source,
                   calls, logged, await_rec, coalesced, queue_vars>>

\* init, line 149: control came back to init's co_switch; init returns to the
\* event loop.
InitReturn ==
    /\ cur = "t_event" /\ ev_pc = "init_switched"
    /\ ev_pc' = "idle"
    /\ UNCHANGED <<event_vars, queue_vars>>

\* ---------------------------------------------------------- t_mp_entrypoint

\* t_mp_entrypoint, lines 106-118: the runtime, the filesystem and networking
\* are initialised and the interpreter's main loop is entered.
MpStart ==
    /\ cur = "t_mp" /\ mp_pc = "start_repl"
    /\ mp_pc' = "running"
    /\ UNCHANGED <<build, active_events, mp_blocking_events, cur, ev_pc, ch,
                   event_source, calls, logged, await_rec, coalesced, queue_vars>>

\* The sources interpreter code of this build can wait for.
BuildSources(b) ==
    {"serial", "timer", "nfs"}
        \cup (IF b.ENABLE_I2C THEN {"i2c"} ELSE {})
        \cup (IF b.ENABLE_FRAMEBUFFER THEN {"framebuffer"} ELSE {})

\* Interpreter code calls await(s), line 53, with one source of the build as
\* its argument: control is at the test of line 54.
MpCallAwait(s) ==
    /\ cur = "t_mp" /\ mp_pc = "running"
    /\ mp_pc' = "await_entry"
    /\ event_source' = {s}
    /\ await_rec' = [src |-> {s}, path |-> "none", returns |-> 0,
                     merged |-> FALSE,
                     after_merged |-> /\ await_rec.src = {s}
                                      /\ await_rec.path = "fast"
                                      /\ await_rec.merged]
    /\ UNCHANGED <<build, active_events, mp_blocking_events, cur, ev_pc, ch,
                   calls, logged, coalesced, queue_vars>>

\* AwaitTest without the fast path: it arms and suspends even when the source
\* is already pending.
AwaitTest_NoFastPath ==
    /\ cur = "t_mp" /\ mp_pc = "await_entry"
    /\ mp_blocking_events' = event_source
    /\ cur' = "t_event"
    /\ mp_pc' = "awaiting"
    /\ await_rec' = [await_rec EXCEPT !.path = "slow"]
    /\ UNCHANGED <<active_events, event_source, coalesced>>
    /\ UNCHANGED <<build, ev_pc, ch, calls, logged, queue_vars>>

\* AwaitTest with a fast path that returns without clearing the bit.
AwaitTest_NoClear ==
    /\ cur = "t_mp" /\ mp_pc = "await_entry"
    /\ IF active_events \cap event_source # {}
       THEN /\ mp_pc' = "running"
            /\ event_source' = {}
            /\ await_rec' = [await_rec EXCEPT !.path = "fast", !.returns = @ + 1,
                                              !.merged = event_source \subseteq coalesced]
            /\ UNCHANGED <<active_events, mp_blocking_events, cur, coalesced>>
       ELSE /\ mp_blocking_events' = event_source
            /\ cur' = "t_event"
            /\ mp_pc' = "awaiting"
            /\ await_rec' = [await_rec EXCEPT !.path = "slow"]
            /\ UNCHANGED <<active_events, event_source, coalesced>>
    /\ UNCHANGED <<build, ev_pc, ch, calls, logged, queue_vars>>

\* await, lines 54-59: the fast path clears the bit and returns; otherwise the
\* source is armed and control goes to the Event Context, which continues
\* after the co_switch that suspended it (in init or in notified).
AwaitTest ==
    /\ cur = "t_mp" /\ mp_pc = "await_entry"
    /\ IF active_events \cap event_source # {}
       THEN /\ active_events' = active_events \ event_source
            /\ mp_pc' = "running"
            /\ event_source' = {}
            /\ await_rec' = [await_rec EXCEPT !.path = "fast", !.returns = @ + 1,
                                              !.merged = event_source \subseteq coalesced]
            /\ coalesced' = coalesced \ event_source
            /\ UNCHANGED <<mp_blocking_events, cur>>
       ELSE /\ mp_blocking_events' = event_source
            /\ cur' = "t_event"
            /\ mp_pc' = "awaiting"
            /\ await_rec' = [await_rec EXCEPT !.path = "slow"]
            /\ UNCHANGED <<active_events, event_source, coalesced>>
    /\ UNCHANGED <<build, ev_pc, ch, calls, logged, queue_vars>>

\* AwaitResume that clears the whole mask (active_events = 0) instead of the
\* one bit.
AwaitResume_ClearAll ==
    /\ cur = "t_mp" /\ mp_pc = "resumed"
    /\ IF active_events \cap event_source # {}
       THEN /\ mp_blocking_events' = mp_event_source_none
            /\ active_events' = {}
            /\ mp_pc' = "running"
            /\ event_source' = {}
            /\ await_rec' = [await_rec EXCEPT !.returns = @ + 1]
            /\ coalesced' = coalesced \cap active_events'
       ELSE /\ mp_pc' = "assert_failed"
            /\ UNCHANGED <<mp_blocking_events, active_events, event_source, await_rec, coalesced>>
    /\ UNCHANGED <<build, cur, ev_pc, ch, calls, logged, queue_vars>>

\* AwaitResume without line 61: mp_blocking_events stays armed on return.
AwaitResume_KeepArmed ==
    /\ cur = "t_mp" /\ mp_pc = "resumed"
    /\ IF active_events \cap event_source # {}
       THEN /\ active_events' = active_events \ event_source
            /\ mp_pc' = "running"
            /\ event_source' = {}
            /\ await_rec' = [await_rec EXCEPT !.returns = @ + 1]
            /\ coalesced' = coalesced \cap active_events'
            /\ UNCHANGED mp_blocking_events
       ELSE /\ mp_pc' = "assert_failed"
            /\ UNCHANGED <<mp_blocking_events, active_events, event_source, await_rec, coalesced>>
    /\ UNCHANGED <<build, cur, ev_pc, ch, calls, logged, queue_vars>>

\* await, lines 60-62, after co_switch returned: the assertion (a failed one
\* spins in __assert_func, lines 76-79), then the two masks are cleared and
\* await returns.
AwaitResume ==
    /\ cur = "t_mp" /\ mp_pc = "resumed"
    /\ IF active_events \cap event_source # {}
       THEN /\ mp_blocking_events' = mp_event_source_none
            /\ active_events' = active_events \ event_source
            /\ mp_pc' = "running"
            /\ event_source' = {}
            /\ await_rec' = [await_rec EXCEPT !.returns = @ + 1]
            /\ coalesced' = coalesced \cap active_events'
       ELSE /\ mp_pc' = "assert_failed"
            /\ UNCHANGED <<mp_blocking_events, active_events, event_source, await_rec, coalesced>>
    /\ UNCHANGED <<build, cur, ev_pc, ch, calls, logged, queue_vars>>

\* MpExit with the final co_switch(t_event) reached in every build.
MpExit_AlwaysSwitch ==
    /\ cur = "t_mp" /\ mp_pc = "running"
    /\ cur' = "t_event"
    /\ mp_pc' = "exited"
    /\ UNCHANGED <<build, active_events, mp_blocking_events, ev_pc, ch,
                   event_source, calls, logged, await_rec, coalesced, queue_vars>>

\* t_mp_entrypoint, lines 120-129: the main loop ended and the runtime is torn
\* down; without EXEC_MODULE control jumps to start_repl, with it the cothread
\* switches to the Event Context for good.
MpExit ==
    /\ cur = "t_mp" /\ mp_pc = "running"
    /\ IF build.EXEC_MODULE
       THEN /\ cur' = "t_event"
            /\ mp_pc' = "exited"
       ELSE /\ mp_pc' = "start_repl"
            /\ cur' = cur
    /\ UNCHANGED <<build, active_events, mp_blocking_events, ev_pc, ch,
                   event_source, calls, logged, await_rec, coalesced, queue_vars>>

\* ---------------------------------------------------------------- notified

\* The switch of notified, lines 160-188: the source whose bit a channel sets
\* ({} for the ethernet channels and for the default case).
ChannelSource(b, c) ==
    CASE c = "SERIAL_RX_CH" -> {"serial"}
      [] c = "TIMER_CH" -> {"timer"}
      [] c = "FRAMEBUFFER_VMM_CH" /\ b.ENABLE_FRAMEBUFFER -> {"framebuffer"}
      [] c = "NFS_CH" -> {"nfs"}
      [] c = "I2C_CH" /\ b.ENABLE_I2C -> {"i2c"}
      [] OTHER -> {}

\* The channels that reach the default case of the switch, line 186.
IsDefaultCase(b, c) ==
    \/ c = "UNKNOWN_CH"
    \/ c = "FRAMEBUFFER_VMM_CH" /\ ~b.ENABLE_FRAMEBUFFER
    \/ c = "I2C_CH" /\ ~b.ENABLE_I2C

\* NotifiedEntry that pumps only the transport whose channel notified.
NotifiedEntry_PumpOwnTransport(c) ==
    /\ cur = "t_event" /\ ev_pc = "idle"
    /\ ch' = c
    /\ calls' = IF c = "SERIAL_RX_CH" THEN <<"process_rx">>
                ELSE IF c \in {"ETH_RX_CH", "ETH_TX_CH"} THEN <<"pyb_lwip_poll">>
                ELSE IF c = "NFS_CH" THEN <<"fs_process_completions">>
                ELSE <<>>
    /\ logged' = FALSE
    /\ ev_pc' = "n_switch"
    /\ UNCHANGED <<build, active_events, mp_blocking_events, cur, mp_pc,
                   event_source, await_rec, coalesced, queue_vars>>

\* notified is entered, lines 155-158: the three transports are pumped.
NotifiedEntry(c) ==
    /\ cur = "t_event" /\ ev_pc = "idle"
    /\ ch' = c
    /\ calls' = <<"process_rx", "pyb_lwip_poll", "fs_process_completions">>
    /\ logged' = FALSE
    /\ ev_pc' = "n_switch"
    /\ UNCHANGED <<build, active_events, mp_blocking_events, cur, mp_pc,
                   event_source, await_rec, coalesced, queue_vars>>

\* NotifiedSwitch with = in place of |= in every case that sets a bit.
NotifiedSwitch_Assign ==
    /\ cur = "t_event" /\ ev_pc = "n_switch"
    /\ active_events' = IF ChannelSource(build, ch) = {} THEN active_events
                        ELSE ChannelSource(build, ch)
    /\ logged' = IsDefaultCase(build, ch)
    /\ ev_pc' = "n_resume"
    /\ coalesced' = (coalesced \cup (ChannelSource(build, ch) \cap active_events))
                        \cap active_events'
    /\ UNCHANGED <<build, mp_blocking_events, cur, mp_pc, ch, event_source,
                   calls, await_rec, queue_vars>>

\* notified, lines 160-188: the switch on the channel.
NotifiedSwitch ==
    /\ cur = "t_event" /\ ev_pc = "n_switch"
    /\ active_events' = active_events \cup ChannelSource(build, ch)
    /\ logged' = IsDefaultCase(build, ch)
    /\ ev_pc' = "n_resume"
    /\ coalesced' = (coalesced \cup (ChannelSource(build, ch) \cap active_events))
                        \cap active_events'
    /\ UNCHANGED <<build, mp_blocking_events, cur, mp_pc, ch, event_source,
                   calls, await_rec, queue_vars>>

\* NotifiedResume with == in place of & in the test.
NotifiedResume_EqualityTest ==
    /\ cur = "t_event" /\ ev_pc = "n_resume"
    /\ IF active_events = mp_blocking_events
       THEN /\ cur' = "t_mp"
            /\ ev_pc' = "n_switched"
            /\ calls' = Append(calls, "co_switch")
            /\ mp_pc' = IF mp_pc = "awaiting" THEN "resumed" ELSE "undefined"
       ELSE /\ ev_pc' = "n_bookkeep"
            /\ UNCHANGED <<cur, calls, mp_pc>>
    /\ UNCHANGED <<build, active_events, mp_blocking_events, ch, event_source,
                   logged, await_rec, coalesced, queue_vars>>

\* NotifiedResume that switches whenever an await is armed, whatever is pending.
NotifiedResume_Always ==
    /\ cur = "t_event" /\ ev_pc = "n_resume"
    /\ IF mp_blocking_events # {}
       THEN /\ cur' = "t_mp"
            /\ ev_pc' = "n_switched"
            /\ calls' = Append(calls, "co_switch")
            /\ mp_pc' = IF mp_pc = "awaiting" THEN "resumed" ELSE "undefined"
       ELSE /\ ev_pc' = "n_bookkeep"
            /\ UNCHANGED <<cur, calls, mp_pc>>
    /\ UNCHANGED <<build, active_events, mp_blocking_events, ch, event_source,
                   logged, await_rec, coalesced, queue_vars>>

\* NotifiedResume that waits in a loop for the awaited event instead of
\* testing once.
NotifiedResume_BusyWait ==
    /\ cur = "t_event" /\ ev_pc = "n_resume"
    /\ IF active_events \cap mp_blocking_events # {}
       THEN /\ cur' = "t_mp"
            /\ ev_pc' = "n_switched"
            /\ calls' = Append(calls, "co_switch")
            /\ mp_pc' = IF mp_pc = "awaiting" THEN "resumed" ELSE "undefined"
       ELSE /\ IF mp_blocking_events = {} THEN ev_pc' = "n_bookkeep" ELSE ev_pc' = ev_pc
            /\ UNCHANGED <<cur, calls, mp_pc>>
    /\ UNCHANGED <<build, active_events, mp_blocking_events, ch, event_source,
                   logged, await_rec, coalesced, queue_vars>>

\* NotifiedResume that tests active_events alone: it switches whenever any
\* event is pending.
NotifiedResume_AnyPending ==
    /\ cur = "t_event" /\ ev_pc = "n_resume"
    /\ IF active_events # {}
       THEN /\ cur' = "t_mp"
            /\ ev_pc' = "n_switched"
            /\ calls' = Append(calls, "co_switch")
            /\ mp_pc' = IF mp_pc = "awaiting" THEN "resumed" ELSE "undefined"
       ELSE /\ ev_pc' = "n_bookkeep"
            /\ UNCHANGED <<cur, calls, mp_pc>>
    /\ UNCHANGED <<build, active_events, mp_blocking_events, ch, event_source,
                   logged, await_rec, coalesced, queue_vars>>

\* NotifiedResume with mpnet_handle_notify also called ahead of co_switch(t_mp).
NotifiedResume_NotifyFirst ==
    /\ cur = "t_event" /\ ev_pc = "n_resume"
    /\ IF active_events \cap mp_blocking_events # {}
       THEN /\ cur' = "t_mp"
            /\ ev_pc' = "n_switched"
            /\ calls' = calls \o <<"mpnet_handle_notify", "co_switch">>
            /\ mp_pc' = IF mp_pc = "awaiting" THEN "resumed" ELSE "undefined"
       ELSE /\ ev_pc' = "n_bookkeep"
            /\ UNCHANGED <<cur, calls, mp_pc>>
    /\ UNCHANGED <<build, active_events, mp_blocking_events, ch, event_source,
                   logged, await_rec, coalesced, queue_vars>>

\* notified, lines 189-191: the resume test and co_switch(t_mp). t_mp continues
\* after its own co_switch: in await, or past the last line of
\* t_mp_entrypoint, which the cothread library leaves undefined.
NotifiedResume ==
    /\ cur = "t_event" /\ ev_pc = "n_resume"
    /\ IF active_events \cap mp_blocking_events # {}
       THEN /\ cur' = "t_mp"
            /\ ev_pc' = "n_switched"
            /\ calls' = Append(calls, "co_switch")
            /\ mp_pc' = IF mp_pc = "awaiting" THEN "resumed" ELSE "undefined"
       ELSE /\ ev_pc' = "n_bookkeep"
            /\ UNCHANGED <<cur, calls, mp_pc>>
    /\ UNCHANGED <<build, active_events, mp_blocking_events, ch, event_source,
                   logged, await_rec, coalesced, queue_vars>>

\* notified, lines 193-194: mpnet_handle_notify, then notified returns. It is
\* reached straight from the test, or when co_switch(t_mp) returns.
NotifiedBookkeep ==
    /\ cur = "t_event" /\ ev_pc \in {"n_bookkeep", "n_switched"}
    /\ calls' = Append(calls, "mpnet_handle_notify")
    /\ ev_pc' = "idle"
    /\ ch' = "none"
    /\ UNCHANGED <<build, active_events, mp_blocking_events, cur, mp_pc,
                   event_source, logged, await_rec, coalesced, queue_vars>>

\* --------------------------------------------------- serial queue operations

QueueOf(q) == IF q = "rx" THEN serial_rx_queue ELSE serial_tx_queue

SetQueue(q, queue) ==
    IF q = "rx"
    THEN serial_rx_queue' = queue /\ UNCHANGED serial_tx_queue
    ELSE serial_tx_queue' = queue /\ UNCHANGED serial_rx_queue

\* init is past its two seeding loops.
SeedingDone == ev_pc \notin {"init_rx", "init_tx"}

\* The lengths a producer gives to an active descriptor.
ActiveLens == {1, BUFFER_SIZE}

\* A holder of no slot asks the free ring of queue q for one.
DequeueFree(q) ==
    /\ SeedingDone /\ nops < MaxOps
    /\ LET d == serial_dequeue_free(QueueOf(q))
       IN  /\ SetQueue(q, d.queue)
           /\ held' = IF d.status = "ok"
                      THEN [held EXCEPT ![q] = @ \cup {d.desc.addr}] ELSE held
           /\ deq_log' = IF d.status = "ok"
                         THEN [deq_log EXCEPT ![q]["free"] = Append(@, d.desc)]
                         ELSE deq_log
           /\ ret' = [op |-> "dequeue_free", q |-> q, status |-> d.status, desc |-> d.desc]
    /\ nops' = nops + 1
    /\ UNCHANGED <<enq_log, seed_full, i, ev_pc, event_vars>>

\* The consumer takes the oldest produced slot of queue q.
DequeueActive(q) ==
    /\ SeedingDone /\ nops < MaxOps
    /\ LET d == serial_dequeue_active(QueueOf(q))
       IN  /\ SetQueue(q, d.queue)
           /\ held' = IF d.status = "ok"
                      THEN [held EXCEPT ![q] = @ \cup {d.desc.addr}] ELSE held
           /\ deq_log' = IF d.status = "ok"
                         THEN [deq_log EXCEPT ![q]["active"] = Append(@, d.desc)]
                         ELSE deq_log
           /\ ret' = [op |-> "dequeue_active", q |-> q, status |-> d.status, desc |-> d.desc]
    /\ nops' = nops + 1
    /\ UNCHANGED <<enq_log, seed_full, i, ev_pc, event_vars>>

\* The holder of slot buf returns it to the free ring of queue q.
EnqueueFree(q, buf) ==
    /\ SeedingDone /\ nops < MaxOps
    /\ buf \in held[q]
    /\ LET e == serial_enqueue_free(QueueOf(q), buf, BUFFER_SIZE)
           desc == [addr |-> buf, len |-> BUFFER_SIZE]
       IN  /\ SetQueue(q, e.queue)
           /\ held' = IF e.status = "ok" THEN [held EXCEPT ![q] = @ \ {buf}] ELSE held
           /\ enq_log' = IF e.status = "ok"
                         THEN [enq_log EXCEPT ![q]["free"] = Append(@, desc)]
                         ELSE enq_log
           /\ ret' = [op |-> "enqueue_free", q |-> q, status |-> e.status, desc |-> desc]
    /\ nops' = nops + 1
    /\ UNCHANGED <<deq_log, seed_full, i, ev_pc, event_vars>>

\* The holder of slot buf publishes len bytes of it on the active ring of q.
EnqueueActive(q, buf, len) ==
    /\ SeedingDone /\ nops < MaxOps
    /\ buf \in held[q]
    /\ LET e == serial_enqueue_active(QueueOf(q), buf, len)
           desc == [addr |-> buf, len |-> len]
       IN  /\ SetQueue(q, e.queue)
           /\ held' = IF e.status = "ok" THEN [held EXCEPT ![q] = @ \ {buf}] ELSE held
           /\ enq_log' = IF e.status = "ok"
                         THEN [enq_log EXCEPT ![q]["active"] = Append(@, desc)]
                         ELSE enq_log
           /\ ret' = [op |-> "enqueue_active", q |-> q, status |-> e.status, desc |-> desc]
    /\ nops' = nops + 1
    /\ UNCHANGED <<deq_log, seed_full, i, ev_pc, event_vars>>

\* ---------------------------------------------------------- specifications

Next ==
    \/ InitSerialRx
    \/ InitSerialTx
    \/ InitContexts
    \/ InitReturn
    \/ MpStart
    \/ \E s \in BuildSources(build) : MpCallAwait(s)
    \/ AwaitTest
    \/ AwaitResume
    \/ MpExit
    \/ \E c \in Channels : NotifiedEntry(c)
    \/ NotifiedSwitch
    \/ NotifiedResume
    \/ NotifiedBookkeep

Spec == Init /\ [][Next]_vars

\* await, lines 53-63, called a second time: code that notified runs in the
\* Event Context (lines 156-158) calls await(s) while the interpreter is
\* suspended in its own await, so mp_blocking_events is already armed. The
\* body has no test of mp_blocking_events. With s pending, lines 54-56 clear
\* the bit and return. Otherwise line 58 overwrites the armed source; the
\* co_switch(t_event) of line 59 names the cothread that is already active
\* and comes straight back; s is still not pending, so the assertion of line
\* 60 fails and __assert_func spins (lines 75-80), or, in a build with NDEBUG,
\* lines 61-62 clear mp_blocking_events and await returns.
EventCallsAwait(s) ==
    /\ cur = "t_event" /\ ev_pc = "n_switch"
    /\ mp_pc = "awaiting" /\ mp_blocking_events # mp_event_source_none
    /\ ~ ("await" \in {calls[n] : n \in DOMAIN calls})
    /\ calls' = Append(calls, "await")
    /\ IF active_events \cap {s} # {}
       THEN /\ active_events' = active_events \ {s}
            /\ UNCHANGED <<mp_blocking_events, ev_pc>>
       ELSE \/ /\ mp_blocking_events' = {s}
               /\ ev_pc' = "assert_failed"
               /\ UNCHANGED active_events
            \/ /\ mp_blocking_events' = mp_event_source_none
               /\ active_events' = active_events \ {s}
               /\ UNCHANGED ev_pc
    /\ coalesced' = coalesced \cap active_events'
    /\ UNCHANGED <<build, cur, mp_pc, ch, event_source, logged, await_rec,
                   queue_vars>>

\* The program with a caller that awaits while a wait is outstanding.
MisuseNext ==
    \/ Next
    \/ \E s \in BuildSources(build) : EventCallsAwait(s)

MisuseSpec == Init /\ [][MisuseNext]_vars

\* The steps the code itself takes once control is at them. When interpreter
\* code calls await or ends its main loop (MpCallAwait, MpExit), and when a
\* notification arrives (NotifiedEntry), is up to the program being
\* interpreted and to the other components.
Fairness ==
    /\ WF_vars(InitSerialRx) /\ WF_vars(InitSerialTx)
    /\ WF_vars(InitContexts) /\ WF_vars(InitReturn)
    /\ WF_vars(MpStart) /\ WF_vars(AwaitTest) /\ WF_vars(AwaitResume)
    /\ WF_vars(NotifiedSwitch) /\ WF_vars(NotifiedResume) /\ WF_vars(NotifiedBookkeep)

LiveSpec == Spec /\ Fairness

\* The serial queues alone: init's seeding, then the queue operations in any
\* order, each holder enqueueing only slots it holds.
QueueInit ==
    /\ Init
    /\ build = [EXEC_MODULE |-> FALSE, ENABLE_I2C |-> FALSE, ENABLE_FRAMEBUFFER |-> FALSE]

QueueNext ==
    \/ InitSerialRx
    \/ InitSerialTx
    \/ \E q \in {"rx", "tx"} : DequeueFree(q)
    \/ \E q \in {"rx", "tx"} : DequeueActive(q)
    \/ \E q \in {"rx", "tx"} : \E buf \in held[q] : EnqueueFree(q, buf)
    \/ \E q \in {"rx", "tx"} : \E buf \in held[q] : \E len \in ActiveLens :
           EnqueueActive(q, buf, len)

QueueSpec == QueueInit /\ [][QueueNext]_vars

\* ------------------------------------------------------------------ claims

InNotified == {"n_switch", "n_resume", "n_switched", "n_bookkeep"}

\* The Interpreter Context is suspended in await and the current notified
\* call carries a channel of the awaited source.
MatchingNotification ==
    /\ mp_pc = "awaiting"
    /\ mp_blocking_events # {}
    /\ ChannelSource(build, ch) = mp_blocking_events

\* C1: when the interpreter is suspended in await(s) and notified(ch) runs with
\* a channel of source s, the steps that follow are the ones of that very call:
\* its switch sets the bit, its resume test switches to the interpreter, and
\* await returns to interpreter code while the call is still in its co_switch.
C1_WakeUpInSameCall ==
    [][ /\ (ev_pc = "n_switch" /\ MatchingNotification)
            => (ev_pc' = "n_resume" /\ MatchingNotification'
                /\ mp_blocking_events \subseteq active_events')
        /\ (ev_pc = "n_resume" /\ MatchingNotification)
            => (cur' = "t_mp" /\ mp_pc' = "resumed" /\ ev_pc' = "n_switched")
        /\ (mp_pc = "resumed")
            => (mp_pc' = "running" /\ cur' = "t_mp" /\ ev_pc' = "n_switched"
                /\ ev_pc = "n_switched" /\ await_rec'.returns = 1) ]_vars

\* C1 witness: await(timer) has returned inside the notified(TIMER_CH) call
\* that resumed it.
C1_Witness ==
    /\ ch = "TIMER_CH" /\ ev_pc = "n_switched" /\ cur = "t_mp"
    /\ mp_pc = "running"
    /\ await_rec.src = {"timer"} /\ await_rec.path = "slow" /\ await_rec.returns = 1

\* C2: await(s) called with s pending clears s and returns in that step: the
\* Interpreter Context keeps control, the Event Context does not move, and
\* mp_blocking_events is left empty.
C2_FastPath ==
    [][ (mp_pc = "await_entry" /\ active_events \cap event_source # {})
            => /\ active_events' = active_events \ event_source
               /\ mp_pc' = "running"
               /\ cur = "t_mp" /\ cur' = "t_mp"
               /\ ev_pc' = ev_pc
               /\ mp_blocking_events = {} /\ mp_blocking_events' = {}
               /\ await_rec'.path = "fast" ]_vars

\* C2 witness: await(serial) has returned by the fast path.
C2_Witness ==
    /\ mp_pc = "running"
    /\ await_rec.src = {"serial"} /\ await_rec.path = "fast" /\ await_rec.returns = 1
    /\ "serial" \notin active_events

\* C3: every return of await(s), by the fast path or after a resume, finds s
\* pending and clears exactly s, every other bit keeping its value; a call
\* returns at most once; and an await that is still suspended when a notified
\* call is past its resume test has had no notification of its source.
C3_ReturnsOnceClearsOnlyS ==
    /\ [][ (mp_pc \in {"await_entry", "resumed"} /\ mp_pc' = "running")
              => /\ event_source # {}
                 /\ event_source \subseteq active_events
                 /\ active_events' = active_events \ event_source
                 /\ await_rec'.returns = 1 ]_vars
    /\ [](await_rec.returns <= 1)
    /\ []((mp_pc = "running" /\ await_rec.src # {}) => await_rec.returns = 1)
    /\ []((mp_pc = "awaiting" /\ ev_pc \in {"idle", "n_bookkeep", "n_switched"})
              => active_events \cap event_source = {})

\* C3 witness: a resumed await(nfs) has returned while two other bits stay
\* pending.
C3_Witness ==
    /\ mp_pc = "running"
    /\ await_rec.src = {"nfs"} /\ await_rec.path = "slow" /\ await_rec.returns = 1
    /\ active_events = {"serial", "timer"}

\* C4: a bit of active_events is only cleared by the return of an await for
\* that source; every step of notified, of init and of t_mp_entrypoint keeps
\* every pending bit.
C4_EventsNeverLost ==
    [][ \A s \in active_events :
            s \notin active_events'
                => /\ mp_pc \in {"await_entry", "resumed"}
                   /\ s \in event_source
                   /\ mp_pc' = "running" ]_vars

\* C4 witness: the serial bit is still pending after a later notification of
\* another source has resumed the interpreter.
C4_Witness ==
    /\ "serial" \in active_events
    /\ ch = "TIMER_CH" /\ ev_pc = "n_switched" /\ mp_pc = "running"
    /\ await_rec.src = {"timer"}

\* C5: a notified call whose channel reaches the default case logs, leaves
\* active_events and mp_blocking_events as they are, does not switch to the
\* Interpreter Context, and returns.
C5_UnknownChannelIgnored ==
    [][ (ev_pc \in InNotified /\ IsDefaultCase(build, ch))
            => /\ active_events' = active_events
               /\ mp_blocking_events' = mp_blocking_events
               /\ cur = "t_event" /\ cur' = "t_event"
               /\ mp_pc' = mp_pc
               /\ (ev_pc = "n_switch" => (logged' /\ ev_pc' = "n_resume"))
               /\ (ev_pc = "n_resume" => (logged /\ ev_pc' = "n_bookkeep"))
               /\ (ev_pc = "n_bookkeep" => ev_pc' = "idle")
               /\ ev_pc # "n_switched" ]_vars

\* C5 witness: a notification of an unregistered channel has been handled
\* while the interpreter stays suspended and another bit stays pending.
C5_Witness ==
    /\ ev_pc = "n_bookkeep" /\ ch = "UNKNOWN_CH" /\ logged
    /\ mp_pc = "awaiting" /\ mp_blocking_events = {"serial"}
    /\ active_events = {"timer"}

\* C6, as stated: every notified call returns.
C6_AlwaysReturns == (ev_pc \in InNotified) ~> (ev_pc = "idle")

\* The resume test of the current notified call cannot fire.
NoResume ==
    (active_events \cup ChannelSource(build, ch)) \cap mp_blocking_events = {}

\* C6, amended: a notified call returns when its resume test does not fire,
\* and a call that switched to the interpreter returns once the interpreter
\* has switched back; a call is only ever held up in its co_switch.
C6_ReturnsOnceInControl ==
    /\ (/\ cur = "t_event"
        /\ \/ ev_pc \in {"n_switch", "n_resume"} /\ NoResume
           \/ ev_pc \in {"n_bookkeep", "n_switched"})
          ~> (ev_pc = "idle")
    /\ []((ev_pc \in InNotified /\ cur = "t_mp") => ev_pc = "n_switched")

\* C6 witness: a notified call that switched to the interpreter is back in
\* control, the interpreter having suspended again.
C6_Witness ==
    /\ ev_pc = "n_switched" /\ cur = "t_event"
    /\ mp_pc = "awaiting"
    /\ calls = <<"process_rx", "pyb_lwip_poll", "fs_process_completions", "co_switch">>

\* The slots init seeds a free ring with, in order.
SeededSlots(data) ==
    [n \in 1 .. NUM_ENTRIES - 1 |-> [addr |-> SlotAddr(data, n - 1), len |-> BUFFER_SIZE]]

\* The free ring of queue holds the NUM_ENTRIES - 1 seeded slots and the
\* active ring is empty.
Seeded(queue, data) ==
    /\ RingSeq(queue.free) = SeededSlots(data)
    /\ Cardinality(RingAddrs(queue.free)) = NUM_ENTRIES - 1
    /\ RingSeq(queue.active) = <<>>

\* C7: init makes NUM_ENTRIES - 1 serial_enqueue_free calls per queue, with
\* pairwise distinct slots, none of which returns Queue-Full, and both free
\* rings are seeded before t_mp_entrypoint starts and before notified runs.
C7_SeededBeforeFirstRun ==
    /\ seed_full = 0
    /\ ev_pc = "init_rx" => /\ Len(RingSeq(serial_rx_queue.free)) = i
                            /\ RingSeq(serial_tx_queue.free) = <<>>
    /\ ev_pc = "init_tx" => /\ Seeded(serial_rx_queue, serial_rx_data)
                            /\ Len(RingSeq(serial_tx_queue.free)) = i
    /\ (mp_pc # "unstarted" \/ ev_pc \in InNotified \cup {"idle", "init_ctx", "init_switched"})
          => /\ Seeded(serial_rx_queue, serial_rx_data)
             /\ Seeded(serial_tx_queue, serial_tx_data)
             /\ Len(enq_log["rx"]["free"]) = NUM_ENTRIES - 1
             /\ Len(enq_log["tx"]["free"]) = NUM_ENTRIES - 1

\* C7 witness: both free rings are seeded and the interpreter has not started.
C7_Witness ==
    /\ ev_pc = "init_ctx" /\ mp_pc = "unstarted"
    /\ Seeded(serial_rx_queue, serial_rx_data)
    /\ Seeded(serial_tx_queue, serial_tx_data)
    /\ seed_full = 0

\* How often a slot occurs in a sequence of descriptors.
Occurrences(log, a) == Cardinality({k \in 1 .. Len(log) : log[k].addr = a})

\* C8: for each queue, the free and the active ring together hold at most
\* NUM_ENTRIES descriptors, no slot is in both rings or twice in one, a slot a
\* holder has dequeued is in no ring, every slot of the data region is in a
\* ring or with a holder, and no slot left a ring more often than it entered it.
C8_Conservation ==
    \A q \in {"rx", "tx"} :
        LET free == RingSeq(QueueOf(q).free)
            active == RingSeq(QueueOf(q).active)
            data == IF q = "rx" THEN serial_rx_data ELSE serial_tx_data
        IN  /\ Len(free) + Len(active) <= NUM_ENTRIES
            /\ RingAddrs(QueueOf(q).free) \cap RingAddrs(QueueOf(q).active) = {}
            /\ Cardinality(RingAddrs(QueueOf(q).free)) = Len(free)
            /\ Cardinality(RingAddrs(QueueOf(q).active)) = Len(active)
            /\ held[q] \cap (RingAddrs(QueueOf(q).free) \cup RingAddrs(QueueOf(q).active)) = {}
            /\ held[q] \cup RingAddrs(QueueOf(q).free) \cup RingAddrs(QueueOf(q).active)
                  = DataSlots(data)
            /\ \A r \in {"free", "active"} : \A a \in DataSlots(data) :
                  Occurrences(deq_log[q][r], a) <= Occurrences(enq_log[q][r], a)

\* C8 witness: slots have moved from the free ring to the active ring and back
\* to a holder.
C8_Witness ==
    /\ Len(deq_log["rx"]["free"]) = 2
    /\ Len(deq_log["rx"]["active"]) = 1
    /\ Len(RingSeq(serial_rx_queue.active)) = 1
    /\ Cardinality(held["rx"]) = 2

\* The first n elements of a sequence.
Prefix(seq, n) == SubSeq(seq, 1, n)

\* C9: each ring is first-in first-out: what has been dequeued from it is the
\* start of what was enqueued into it, in the same order, and the ring holds
\* the rest; a successful dequeue returns the descriptor it removed, and a
\* dequeue of an empty ring returns Queue-Empty and changes nothing.
C9_Fifo ==
    /\ [](\A q \in {"rx", "tx"} : \A r \in {"free", "active"} :
            LET ring == IF r = "free" THEN QueueOf(q).free ELSE QueueOf(q).active
                nd == Len(deq_log[q][r])
                ne == Len(enq_log[q][r])
            IN  /\ nd <= ne
                /\ deq_log[q][r] = Prefix(enq_log[q][r], nd)
                /\ RingSeq(ring) = SubSeq(enq_log[q][r], nd + 1, ne))
    /\ []((ret.op \in {"dequeue_free", "dequeue_active"} /\ ret.status = "ok")
            => LET r == IF ret.op = "dequeue_free" THEN "free" ELSE "active"
               IN  /\ deq_log[ret.q][r] # <<>>
                   /\ ret.desc = deq_log[ret.q][r][Len(deq_log[ret.q][r])])
    /\ [][ \A q \in {"rx", "tx"} :
             (nops' = nops + 1 /\ ret'.q = q /\ ret'.op \in {"dequeue_free", "dequeue_active"})
               => LET ring == IF ret'.op = "dequeue_free" THEN QueueOf(q).free
                              ELSE QueueOf(q).active
                  IN  IF RingSeq(ring) = <<>>
                      THEN /\ ret'.status = "Queue-Empty"
                           /\ UNCHANGED <<serial_rx_queue, serial_tx_queue, held>>
                      ELSE /\ ret'.status = "ok"
                           /\ ret'.desc = RingSeq(ring)[1] ]_vars

\* C9 witness: on the seeded transmit queue two slots taken from the free ring
\* were published with enqueue_active, and two dequeue_active calls returned
\* them in that order.
C9_Witness ==
    /\ Len(deq_log["tx"]["free"]) = 2
    /\ Len(enq_log["tx"]["active"]) = 2
    /\ enq_log["tx"]["active"][1].addr = deq_log["tx"]["free"][1].addr
    /\ enq_log["tx"]["active"][2].addr = deq_log["tx"]["free"][2].addr
    /\ deq_log["tx"]["active"] = enq_log["tx"]["active"]
    /\ ret.op = "dequeue_active" /\ ret.q = "tx" /\ ret.status = "ok"
    /\ ret.desc = enq_log["tx"]["active"][2]

\* C10: serial_enqueue_free on a free ring that holds NUM_ENTRIES - 1
\* descriptors returns Queue-Full and leaves both rings, their indices and
\* their entries, as they were.
C10_FullFreeRing ==
    [][ \A q \in {"rx", "tx"} :
          (/\ nops' = nops + 1
           /\ ret'.q = q /\ ret'.op = "enqueue_free"
           /\ Len(RingSeq(QueueOf(q).free)) = NUM_ENTRIES - 1)
            => /\ ret'.status = "Queue-Full"
               /\ UNCHANGED <<serial_rx_queue, serial_tx_queue, held, enq_log>> ]_vars

\* C10 witness: serial_enqueue_free was refused on the full receive free ring.
C10_Witness ==
    /\ ret.op = "enqueue_free" /\ ret.q = "rx" /\ ret.status = "Queue-Full"
    /\ Len(RingSeq(serial_rx_queue.free)) = NUM_ENTRIES - 1

C12_AssertionHolds ==
    /\ mp_pc # "assert_failed"
    /\ mp_pc = "resumed"
          => /\ event_source # {}
             /\ event_source \subseteq active_events
             /\ mp_blocking_events = event_source
             /\ ev_pc = "n_switched"

\* C12 witness: control is back in await(nfs), at the assertion, with a
\* stale bit of another source pending too.
C12_Witness ==
    /\ mp_pc = "resumed" /\ cur = "t_mp"
    /\ event_source = {"nfs"}
    /\ active_events = {"nfs", "serial"}

\* C13: a suspended await(s) ends only by the resume step of a notified call
\* whose channel maps to s; every other step leaves the interpreter suspended
\* with s armed, and a notified call of another channel adds its own bit at
\* most and goes on to its bookkeeping.
C13_OnlyMatchingEventResumes ==
    [][ mp_pc = "awaiting"
          => /\ mp_pc' # "awaiting"
                  => /\ ev_pc = "n_resume" /\ mp_pc' = "resumed"
                     /\ ChannelSource(build, ch) = mp_blocking_events
             /\ mp_pc' = "awaiting"
                  => /\ mp_blocking_events' = mp_blocking_events
                     /\ event_source' = event_source
                     /\ cur' = "t_event"
             /\ (ev_pc = "n_switch" /\ ChannelSource(build, ch) # mp_blocking_events)
                  => /\ active_events' = active_events \cup ChannelSource(build, ch)
                     /\ active_events' \cap mp_blocking_events = {}
             /\ (ev_pc = "n_resume" /\ ChannelSource(build, ch) # mp_blocking_events)
                  => (ev_pc' = "n_bookkeep" /\ mp_pc' = "awaiting") ]_vars

\* C13 witness: with await(serial) suspended, notified calls of other sources
\* have set two bits and the current one, of the timer, did not resume it.
C13_Witness ==
    /\ mp_pc = "awaiting" /\ mp_blocking_events = {"serial"}
    /\ ev_pc = "n_bookkeep" /\ ch = "TIMER_CH"
    /\ active_events = {"timer", "nfs"}

\* C14, as stated: control passes from t_mp to t_event only inside await and
\* from t_event to t_mp only inside the resume step of notified.
C14_ExactlyTwoSwitchPoints ==
    [][ /\ (cur = "t_mp" /\ cur' = "t_event") => mp_pc = "await_entry"
        /\ (cur = "t_event" /\ cur' = "t_mp") => ev_pc = "n_resume" ]_vars

\* C14, amended: control passes from t_mp to t_event inside await and, with
\* EXEC_MODULE, at the last co_switch of t_mp_entrypoint; it passes from
\* t_event to t_mp in the resume step of notified and, once, in the co_switch
\* of init that starts t_mp_entrypoint. No other step changes the active
\* cothread.
C14_FourSwitchPoints ==
    [][ /\ (cur = "t_mp" /\ cur' = "t_event")
            => \/ mp_pc = "await_entry" /\ mp_pc' = "awaiting"
               \/ mp_pc = "running" /\ mp_pc' = "exited" /\ build.EXEC_MODULE
        /\ (cur = "t_event" /\ cur' = "t_mp")
            => \/ ev_pc = "n_resume" /\ ev_pc' = "n_switched"
               \/ ev_pc = "init_ctx" /\ mp_pc = "unstarted" /\ mp_pc' = "start_repl"
        /\ cur \in {"t_event", "t_mp"} ]_vars

\* C14 witness: t_mp_entrypoint, resumed by a notified call, has ended and
\* switched back to the Event Context.
C14_Witness ==
    /\ mp_pc = "exited" /\ cur = "t_event"
    /\ ev_pc = "n_switched"
    /\ build.EXEC_MODULE

\* C15: a call of await made while mp_blocking_events is already non-empty
\* halts the process and leaves the armed source as the suspended await set
\* it.
C15_DoubleAwaitHalts ==
    ("await" \in {calls[n] : n \in DOMAIN calls})
        => /\ ev_pc = "assert_failed"
           /\ mp_blocking_events = event_source

\* How often routine r has been called in the current notified call.
CallCount(r) == Cardinality({n \in DOMAIN calls : calls[n] = r})

Pump == <<"process_rx", "pyb_lwip_poll", "fs_process_completions">>

\* C16: every notified call, whatever its channel and whether or not the
\* interpreter is suspended, begins by calling process_rx, pyb_lwip_poll and
\* fs_process_completions once each, in that order; active_events, the
\* active cothread and the interpreter are untouched by then, the bit of the
\* channel is set and the interpreter resumed only afterwards, and none of
\* the three is called again in that call.
C16_PumpFirst ==
    [][ /\ (ev_pc = "idle" /\ ev_pc' # "idle")
            => /\ calls' = Pump
               /\ ev_pc' = "n_switch"
               /\ active_events' = active_events
               /\ cur' = "t_event" /\ mp_pc' = mp_pc
        /\ ev_pc' \in InNotified
            => /\ Len(calls') >= 3 /\ Prefix(calls', 3) = Pump
               /\ \A n \in 1 .. 3 : CallCount(Pump[n])' = 1
        /\ (active_events' # active_events \/ cur' = "t_mp")
            => (ev_pc \in InNotified => Prefix(calls, 3) = Pump) ]_vars

\* C16 witness: a notified call of an unknown channel, arriving while the
\* interpreter runs nothing (suspended in await), has pumped the three
\* transports and has not yet looked at its channel.
C16_Witness ==
    /\ ev_pc = "n_switch" /\ ch = "UNKNOWN_CH"
    /\ mp_pc = "awaiting"
    /\ calls = Pump
    /\ active_events = {"timer"}

\* C17: mpnet_handle_notify is called once in every notified call, as the
\* step that ends the call, and only with the Event Context active: straight
\* after a resume test that did not fire, or after the resumed interpreter
\* has suspended in await again or exited. It is never called while the
\* interpreter is in control.
C17_BookkeepingLast ==
    [][ /\ CallCount("mpnet_handle_notify")' # CallCount("mpnet_handle_notify")
            => \/ /\ ev_pc \in {"n_bookkeep", "n_switched"}
                  /\ ev_pc' = "idle"
                  /\ cur = "t_event" /\ cur' = "t_event"
                  /\ mp_pc \in {"awaiting", "exited"}
                  /\ calls' = Append(calls, "mpnet_handle_notify")
                  /\ CallCount("mpnet_handle_notify") = 0
               \/ ev_pc = "idle" /\ ev_pc' = "n_switch"
        /\ (ev_pc \in InNotified /\ ev_pc' = "idle")
            => /\ calls'[Len(calls')] = "mpnet_handle_notify"
               /\ CallCount("mpnet_handle_notify")' = 1
        /\ ev_pc' \in InNotified => CallCount("mpnet_handle_notify")' = 0
        /\ cur' = "t_mp" => (ev_pc' # "idle" => CallCount("mpnet_handle_notify")' = 0) ]_vars

\* C17 witness: a notified call that resumed the interpreter has returned;
\* the interpreter had suspended again, in a new await, before the
\* bookkeeping ran.
C17_Witness ==
    /\ ev_pc = "idle" /\ cur = "t_event"
    /\ calls = Pump \o <<"co_switch", "mpnet_handle_notify">>
    /\ mp_pc = "awaiting"
    /\ await_rec.path = "slow" /\ await_rec.returns = 0

\* C18: notifications of one source coalesce into its single bit. A source
\* whose bit stands for two or more notifications is simply pending; a
\* notification of a pending source changes nothing in active_events; the
\* await of such a source returns by the fast path and leaves the bit clear;
\* and the await of the same source that follows it, with no notification in
\* between, finds nothing pending and suspends.
C18_Coalescing ==
    [][ /\ coalesced \subseteq active_events
        /\ (ev_pc = "n_switch" /\ ChannelSource(build, ch) \subseteq active_events)
            => active_events' = active_events
        /\ (mp_pc = "await_entry" /\ event_source \subseteq coalesced)
            => /\ mp_pc' = "running" /\ cur' = "t_mp"
               /\ await_rec'.path = "fast" /\ await_rec'.merged
               /\ active_events' = active_events \ event_source
        /\ cur = "t_mp" /\ mp_pc # "await_entry" /\ mp_pc # "resumed"
            => active_events' = active_events
        /\ (mp_pc = "await_entry" /\ await_rec.after_merged)
            => /\ active_events \cap event_source = {}
               /\ mp_pc' = "awaiting" /\ cur' = "t_event"
               /\ mp_blocking_events' = event_source ]_vars

\* C18 witness: after two or more serial notifications, await(serial) returned
\* by the fast path, and the await(serial) called next is suspended.
C18_Witness ==
    /\ await_rec.after_merged
    /\ await_rec.src = {"serial"} /\ await_rec.path = "slow"
    /\ mp_pc = "awaiting" /\ cur = "t_event"
    /\ mp_blocking_events = {"serial"}

\* C19: in the EXEC_MODULE build, once t_mp_entrypoint has run its last
\* co_switch the interpreter stays there: the Event Context is the active
\* cothread from then on, mp_blocking_events is none and stays none, and no
\* resume test of a later notified call fires, whatever is pending. Only the
\* EXEC_MODULE build reaches that co_switch, and notified never switches to
\* a cothread that is not suspended in await.
C19_ExitIsPermanent ==
    [][ /\ mp_pc = "exited"
            => /\ mp_pc' = "exited"
               /\ cur = "t_event" /\ cur' = "t_event"
               /\ mp_blocking_events = mp_event_source_none
               /\ mp_blocking_events' = mp_event_source_none
               /\ build.EXEC_MODULE
               /\ ev_pc = "n_resume" => ev_pc' = "n_bookkeep"
        /\ mp_pc' # "undefined" ]_vars

\* C19 witness: after the interpreter exited, a later notified call, of the
\* serial channel and with other events pending too, has passed its resume
\* test without switching.
C19_Witness ==
    /\ mp_pc = "exited" /\ cur = "t_event"
    /\ ev_pc = "n_bookkeep" /\ ch = "SERIAL_RX_CH"
    /\ active_events = {"serial", "timer"}
    /\ mp_blocking_events = mp_event_source_none

\* C20: whenever notified or init has returned, active_events and
\* mp_blocking_events are disjoint; so the resume test of a notified call
\* fires only on the bit that this call has set, and a call that sets no bit
\* does not resume the interpreter, whatever else is pending.
C20_DisjointWhenIdle ==
    [][ /\ ev_pc' = "idle" => active_events' \cap mp_blocking_events' = {}
        /\ (ev_pc = "n_resume" /\ cur' = "t_mp")
            => /\ ChannelSource(build, ch) # {}
               /\ active_events \cap mp_blocking_events = ChannelSource(build, ch)
        /\ (ev_pc = "n_resume" /\ ChannelSource(build, ch) = {})
            => (cur' = "t_event" /\ ev_pc' = "n_bookkeep" /\ mp_pc' = mp_pc) ]_vars

\* C20 witness: with await(timer) suspended and stale serial and nfs bits
\* pending, a notified call of the ethernet receive channel has gone through
\* its resume test without resuming the interpreter.
C20_Witness ==
    /\ ev_pc = "n_bookkeep" /\ ch = "ETH_RX_CH"
    /\ mp_pc = "awaiting" /\ mp_blocking_events = {"timer"}
    /\ active_events = {"serial", "nfs"}

====
